---------------------------- MODULE Spec2Model ----------------------------
(***************************************************************************)
(* The named-entity-recognition notebook                                   *)
(* examples/named_entity_recognition/ner_wikigold_transformer.ipynb as a   *)
(* state machine.  One action per statement of the notebook's code cells,  *)
(* in cell order; the kernel executes them one at a time.  A library call  *)
(* may raise, which stops the run.  "Restart and run all" starts the next  *)
(* run in a fresh kernel over the same data file.                          *)
(*                                                                         *)
(* Words are sequences of one-character strings.  Sentences carry the      *)
(* position they had in the parsed file (field pos), which the program     *)
(* does not read: it is what the selection properties are stated over.     *)
(***************************************************************************)
EXTENDS Integers, Sequences, FiniteSets, TLC

(* ------------------------------ bounds -------------------------------- *)

\* Most sentences a sub-sample may hold.
MaxSentences == 3

\* Most sentences the data file may hold.
MaxFile == 20

\* Runs of the notebook ("restart and run all") in one behaviour.
MaxRuns == 2

(* ------------------------- program constants -------------------------- *)

RANDOM_SEED == 100

MAX_SEQ_LENGTH == 200

BATCH_SIZE == 16

\* A fraction written as a decimal literal in the source: num/den.
Ratio(n, d) == [num |-> n, den |-> d]

\* int(r * n) for n >= 0.
IntOf(r, n) == (r.num * n) \div r.den

\* ceil(r * n) for n >= 0.
CeilOf(r, n) == (r.num * n + r.den - 1) \div r.den

None == "None"

NoError == [step |-> None, origin |-> None]

(* ------------------------------ helpers ------------------------------- *)

Range(s) == {s[i] : i \in DOMAIN s}

Max2(a, b) == IF a >= b THEN a ELSE b

IsPrefix(s, t) == Len(s) <= Len(t) /\ \A i \in 1..Len(s) : s[i] = t[i]

RECURSIVE SelectSeqIdx(_, _)
\* The subsequence of s at the indices idx (a sequence of indices), in idx order.
SelectSeqIdx(s, idx) ==
    IF idx = <<>> THEN <<>>
    ELSE <<s[Head(idx)]>> \o SelectSeqIdx(s, Tail(idx))

(* ------------------------- the configuration -------------------------- *)

DATA_URL == "https://raw.githubusercontent.com/juand-r/entity-recognition-datasets/master/data/wikigold/CONLL-format/data/wikigold.conll.txt"

\* The values the quick run overrides.
QuickOverridesBuggy(base) ==
    [base EXCEPT !.SAMPLE_RATIO = Ratio(1, 10), !.NUM_TRAIN_EPOCHS = 1,
                 !.BATCH_SIZE = 8]

QuickOverrides(base) ==
    [base EXCEPT !.SAMPLE_RATIO = Ratio(1, 10), !.NUM_TRAIN_EPOCHS = 1]

\* The parameters cell: every assignment, then the quick-run override.
\* TemporaryDirectory().name is a fresh name in every kernel.
ConfigCell(quick, r) ==
    LET base == [ DATA_URL           |-> DATA_URL,
                  TEST_DATA_FRACTION |-> Ratio(3, 10),
                  SAMPLE_RATIO       |-> Ratio(1, 1),
                  DATA_PATH          |-> <<"tmp", r, 1>>,
                  CACHE_DIR          |-> <<"tmp", r, 2>>,
                  RANDOM_SEED        |-> RANDOM_SEED,
                  NUM_TRAIN_EPOCHS   |-> 5,
                  MODEL_NAME         |-> "bert-base-cased",
                  DO_LOWER_CASE      |-> FALSE,
                  MAX_SEQ_LENGTH     |-> MAX_SEQ_LENGTH,
                  TRAILING_PIECE_TAG |-> "X",
                  NUM_GPUS           |-> None,
                  BATCH_SIZE         |-> BATCH_SIZE ]
    IN  IF quick THEN QuickOverrides(base) ELSE base

(* ---------------------------- the data file --------------------------- *)

\* Two sentences of the CoNLL file; a file alternates them.
SentenceA == << <<"t","h","e">>, <<"C","a","l","o","i">> >>

LabelsA == << "O", "I-ORG" >>

SentenceB == << <<"A","c","m","e">>, <<"J","a","n","e">>, <<"C","a","l","o","i">> >>

LabelsB == << "I-ORG", "I-PER", "I-ORG" >>

\* The lines of sentence number p: one <<token, label>> per token.
SentenceLines(p) ==
    IF p % 2 = 1
    THEN [i \in 1..Len(SentenceA) |-> <<SentenceA[i], LabelsA[i]>>]
    ELSE [i \in 1..Len(SentenceB) |-> <<SentenceB[i], LabelsB[i]>>]

RECURSIVE FileLines(_)
\* A CoNLL file of n sentences: token lines, a blank line (<<>>) after each sentence.
FileLines(n) ==
    IF n = 0 THEN <<>>
    ELSE FileLines(n - 1) \o SentenceLines(n) \o << <<>> >>

RECURSIVE SplitBlank(_, _)
\* The runs of non-blank lines of a file, in order; cur is the run being read.
SplitBlank(lines, cur) ==
    IF lines = <<>> THEN (IF cur = <<>> THEN <<>> ELSE <<cur>>)
    ELSE IF Head(lines) = <<>>
         THEN (IF cur = <<>> THEN <<>> ELSE <<cur>>) \o SplitBlank(Tail(lines), <<>>)
         ELSE SplitBlank(Tail(lines), Append(cur, Head(lines)))

\* read_conll_file: the token lists and the label lists of the file, sentence
\* by sentence.
read_conll_file(lines) ==
    LET sents == SplitBlank(lines, <<>>)
    IN  [ sentence_list |-> [p \in 1..Len(sents) |->
              [pos |-> p, tokens |-> [i \in 1..Len(sents[p]) |-> sents[p][i][1]]]],
          labels_list   |-> [p \in 1..Len(sents) |->
              [pos |-> p, labels |-> [i \in 1..Len(sents[p]) |-> sents[p][i][2]]]] ]

(* ----------------------- pseudo-random generators --------------------- *)
(* A generator is a deterministic function of its seed that the model does *)
(* not know: the numbers drawn from a source are chosen when first drawn   *)
(* and recorded on the source's tape, and every later generator started    *)
(* from the same source replays them.  A fresh kernel starts each library's*)
(* global generator from operating-system entropy, a source of its own.    *)

RngSources ==
    {<<lib, "os", r>> : lib \in {"py", "np"}, r \in 1..MaxRuns}
        \cup {<<lib, "seed", RANDOM_SEED>> : lib \in {"py", "np"}}

\* The generator state after seeding library lib with s.
Seeded(lib, s) == [src |-> <<lib, "seed", s>>, pos |-> 0]

\* The global generator state of library lib in a fresh kernel of run r.
Entropy(lib, r) == [src |-> <<lib, "os", r>>, pos |-> 0]

\* The draw sequences for moduli ms (draw i lies in 0..ms[i]-1) that generator
\* state st can produce, given what tape tp has recorded.
Draws(tp, st, ms) ==
    LET k == Len(ms)
        top == IF k = 0 THEN 0 ELSE ms[1]
    IN  { d \in [1..k -> 0..(top - 1)] :
            \A i \in 1..k :
                /\ d[i] < ms[i]
                /\ st.pos + i <= Len(tp[st.src]) => d[i] = tp[st.src][st.pos + i] % ms[i] }

\* The tape after state st drew d.
Recorded(tp, st, d) ==
    LET old == tp[st.src]
    IN  [tp EXCEPT ![st.src] =
            [i \in 1..Max2(Len(old), st.pos + Len(d)) |->
                IF i <= Len(old) THEN old[i] ELSE d[i - st.pos]]]

Advanced(st, d) == [st EXCEPT !.pos = st.pos + Len(d)]

RECURSIVE SamplePool(_, _, _)
\* random.sample's selection loop over a pool: draw i picks pool[j] and moves
\* the pool's last unpicked element into its place (j counted from 0).
SamplePool(pool, n, d) ==
    IF d = <<>> THEN <<>>
    ELSE LET j == Head(d) + 1
         IN  <<pool[j]>> \o SamplePool([pool EXCEPT ![j] = pool[n]], n - 1, Tail(d))

\* random.sample(population, k) under the draws d.
random_sample(population, d) == SamplePool(population, Len(population), d)

\* The moduli of random.sample(population of n, k): n, n-1, ..., n-k+1.
SampleModuli(n, k) == [i \in 1..k |-> n - (i - 1)]

RECURSIVE Shuffled(_, _, _)
\* numpy's shuffle of x: for i = n-1 down to 1, swap x[i] with x[j], j drawn
\* from 0..i (indices counted from 0).
Shuffled(x, i, d) ==
    IF i < 1 THEN x
    ELSE LET j == Head(d)
         IN  Shuffled([x EXCEPT ![i + 1] = x[j + 1], ![j + 1] = x[i + 1]], i - 1, Tail(d))

\* RandomState.permutation(n) under the draws d: a shuffle of 0..n-1, here 1..n.
permutation(n, d) == Shuffled([i \in 1..n |-> i], n - 1, d)

\* The moduli of permutation(n): n, n-1, ..., 2.
ShuffleModuli(n) == [i \in 1..Max2(n - 1, 0) |-> n - (i - 1)]

zip(a, b) == [i \in 1..(IF Len(a) <= Len(b) THEN Len(a) ELSE Len(b)) |-> <<a[i], b[i]>>]

\* list(zip(*pairs)): one tuple per component; no tuple at all when pairs is empty.
unzip(pairs) ==
    IF pairs = <<>> THEN <<>>
    ELSE << [i \in 1..Len(pairs) |-> pairs[i][1]], [i \in 1..Len(pairs) |-> pairs[i][2]] >>


(* ----------------------------- tokenizer ------------------------------ *)

Punctuation == {"?", ".", ",", "!", ";", ":"}

RECURSIVE PiecesFrom(_, _)
\* The tokenizer's pieces of a word: every punctuation character is a piece of
\* its own, every run of other characters is one piece; cur is the run being read.
PiecesFrom(word, cur) ==
    IF word = <<>> THEN (IF cur = <<>> THEN <<>> ELSE <<cur>>)
    ELSE IF Head(word) \in Punctuation
         THEN (IF cur = <<>> THEN <<>> ELSE <<cur>>) \o << <<Head(word)>> >>
                  \o PiecesFrom(Tail(word), <<>>)
         ELSE PiecesFrom(Tail(word), Append(cur, Head(word)))

tokenize(word) == PiecesFrom(word, <<>>)

RECURSIVE SplitWhitespace(_, _)
\* str.split(): the maximal runs of non-blank characters; cur is the run being read.
SplitWhitespace(chars, cur) ==
    IF chars = <<>> THEN (IF cur = <<>> THEN <<>> ELSE <<cur>>)
    ELSE IF Head(chars) = " "
         THEN (IF cur = <<>> THEN <<>> ELSE <<cur>>) \o SplitWhitespace(Tail(chars), <<>>)
         ELSE SplitWhitespace(Tail(chars), Append(cur, Head(chars)))

split(chars) == SplitWhitespace(chars, <<>>)

(* ------------------------------ label map ----------------------------- *)

\* The labels of the data and the trailing-piece tag, in sorted() order.
SortedLabels == <<"I-ORG", "I-PER", "O", "X">>

\* sorted(set(labels)) for labels among SortedLabels.
SortedSet(labels) == SelectSeq(SortedLabels, LAMBDA l : l \in labels)

\* create_label_map: the sorted distinct labels numbered from 0, then the
\* trailing-piece tag if no label is that tag.
create_label_map(label_lists, trailing_piece_tag) ==
    LET present == UNION {Range(label_lists[k].labels) : k \in DOMAIN label_lists}
        unique == SortedSet(present)
        withTag == IF trailing_piece_tag \in present THEN unique
                   ELSE Append(unique, trailing_piece_tag)
    IN  [l \in Range(withTag) |-> (CHOOSE i \in 1..Len(withTag) : withTag[i] = l) - 1]

\* label_id2str: the label of an id of the map.
LabelOfId(label_map, id) ==
    IF \E l \in DOMAIN label_map : label_map[l] = id
    THEN CHOOSE l \in DOMAIN label_map : label_map[l] = id
    ELSE None

(* ----------------------------- preprocess ----------------------------- *)

\* labels=None: no label lists, and the label list of a sentence without one.
NoLabelLists == <<>>

NoLabels == [pos |-> 0, labels |-> <<>>]

RECURSIVE PiecesOfTokens(_, _)
\* The pieces of a token list: for token number t, one entry per piece, the
\* first marked (the trailing mask).
PiecesOfTokens(tokens, t) ==
    IF t > Len(tokens) THEN <<>>
    ELSE LET ps == tokenize(tokens[t])
         IN  [i \in 1..Len(ps) |-> [piece |-> ps[i], first |-> (i = 1), tok |-> t]]
                 \o PiecesOfTokens(tokens, t + 1)

Truncated(s, max_len) == IF Len(s) > max_len THEN SubSeq(s, 1, max_len) ELSE s

\* One example of the dataset: the pieces of the sentence cut to max_len (the
\* padding up to max_len, masked out by the attention mask, is left implicit),
\* and for each piece the id of its label: the token's label on a first piece,
\* the trailing-piece tag on the others.  pos and lpos are the parsed-file
\* positions of the sentence and of the label list it was given.
PreprocessOne(sentence, labels, max_len, label_map, trailing_piece_tag) ==
    LET ps == Truncated(PiecesOfTokens(sentence.tokens, 1), max_len)
    IN  [ pos       |-> sentence.pos,
          lpos      |-> labels.pos,
          pieces    |-> ps,
          label_ids |-> IF labels = NoLabels THEN <<>>
                        ELSE [i \in 1..Len(ps) |->
                                 IF ps[i].first THEN label_map[labels.labels[ps[i].tok]]
                                 ELSE label_map[trailing_piece_tag]] ]

\* TokenClassificationProcessor.preprocess: one example per sentence, in order;
\* labels is NoLabelLists for labels=None.
preprocess(text, max_len, labels, label_map, trailing_piece_tag) ==
    [k \in 1..Len(text) |->
        PreprocessOne(text[k], IF labels = NoLabelLists THEN NoLabels ELSE labels[k],
                      max_len, label_map, trailing_piece_tag)]

\* dataloader_from_dataset: the loader draws its order when it is iterated.
dataloader_from_dataset(dataset, batch_size, num_gpus, shuffle, distributed) ==
    [dataset |-> dataset, batch_size |-> batch_size, shuffle |-> shuffle]

Orderings(n) ==
    {f \in [1..n -> 1..n] : \A i, j \in 1..n : f[i] = f[j] => i = j}

\* The orders in which a loader may yield its examples.
LoaderOrders(loader) ==
    IF loader.shuffle THEN Orderings(Len(loader.dataset))
    ELSE {[i \in 1..Len(loader.dataset) |-> i]}

(* ------------------------------ the model ----------------------------- *)

\* What training may produce: a classifier that repeats the label id it saw
\* for a piece in training and answers the first id it saw for any other piece,
\* or one that answers a fixed label id.
Classifiers == {"memorize", "first_id", "last_id"}

\* TokenClassifier(model_name, num_labels, cache_dir)
TokenClassifier(model_name, num_labels, cache_dir) ==
    [model_name |-> model_name, num_labels |-> num_labels,
     fitted |-> None, seen |-> {}, default |-> 0]

\* The <<piece, label id>> pairs of a dataset.
SeenPairs(dataset) ==
    UNION { {<<dataset[k].pieces[i].piece, dataset[k].label_ids[i]>> :
                i \in 1..Len(dataset[k].pieces)} : k \in DOMAIN dataset }

\* The label id of the first piece of a dataset.
FirstId(dataset) ==
    IF dataset = <<>> \/ dataset[1].label_ids = <<>> THEN 0 ELSE dataset[1].label_ids[1]

\* The label id the model answers for a piece.
PredictId(model, piece) ==
    IF model.fitted = "last_id" THEN model.num_labels - 1
    ELSE IF model.fitted = "memorize" /\ \E pr \in model.seen : pr[1] = piece
         THEN LET ids == {pr[2] : pr \in {q \in model.seen : q[1] = piece}}
              IN  CHOOSE i \in ids : \A j \in ids : i <= j
         ELSE IF model.fitted = "memorize" THEN model.default
         ELSE 0

\* model.predict over a loader yielding its examples in the given order: for
\* each example, for each position, the id of the highest score.  ex and at
\* name the dataset example and position the score was computed from.
predict(model, loader, order) ==
    [n \in 1..Len(order) |->
        LET e == loader.dataset[order[n]]
        IN  [i \in 1..Len(e.pieces) |->
                [id |-> PredictId(model, e.pieces[i].piece), ex |-> order[n], at |-> i]]]

RECURSIVE FirstPieceLabels(_, _, _, _)
\* The labels at the first pieces of an example, from position i on.
FirstPieceLabels(e, scores, label_map, i) ==
    IF i > Len(e.pieces) THEN <<>>
    ELSE IF ~e.pieces[i].first THEN FirstPieceLabels(e, scores, label_map, i + 1)
    ELSE LET sc == IF i <= Len(scores) THEN scores[i]
                   ELSE [id |-> 0, ex |-> 0, at |-> i]
         IN  << [label |-> LabelOfId(label_map, sc.id), ex |-> sc.ex, at |-> sc.at] >>
                 \o FirstPieceLabels(e, scores, label_map, i + 1)

\* model.get_predicted_token_labels: for example idx of the dataset, the labels
\* of predictions[idx] at the dataset's first-piece positions.
get_predicted_token_labels(predictions, label_map, dataset) ==
    [idx \in 1..Len(dataset) |->
        FirstPieceLabels(dataset[idx], predictions[idx], label_map, 1)]

\* model.get_true_test_labels: the labels of the dataset at its first pieces.
get_true_test_labels(label_map, dataset) ==
    [idx \in 1..Len(dataset) |->
        LET e == dataset[idx]
            firsts == SelectSeq([i \in 1..Len(e.pieces) |-> i], LAMBDA i : e.pieces[i].first)
        IN  [j \in 1..Len(firsts) |-> LabelOfId(label_map, e.label_ids[firsts[j]])]]

\* The label strings of a list of predicted label lists.
LabelStrings(lists) ==
    [i \in 1..Len(lists) |-> [j \in 1..Len(lists[i]) |-> lists[i][j].label]]

(* ----------------------- the classification report ------------------- *)

\* The entity type of a label: what follows its last "-".
TypeOf(label) ==
    CASE label = "I-ORG" -> "ORG"
      [] label = "I-PER" -> "PER"
      [] label = "X"     -> "X"
      [] OTHER           -> "O"

SortedTypes == <<"ORG", "PER", "X">>

RECURSIVE Flattened(_)
\* The label lists in one list, an "O" after each.
Flattened(lists) ==
    IF lists = <<>> THEN <<>>
    ELSE Head(lists) \o <<"O">> \o Flattened(Tail(lists))

\* get_entities: the maximal runs of labels of one type other than "O", as
\* <<type, first index, last index>>.
get_entities(lists) ==
    LET f == Flattened(lists)
        T(i) == TypeOf(f[i])
    IN  { x \in Range(SortedTypes) \X (1..Len(f)) \X (1..Len(f)) :
            /\ x[2] <= x[3]
            /\ \A i \in x[2]..x[3] : T(i) = x[1]
            /\ (x[2] = 1 \/ T(x[2] - 1) # x[1])
            /\ (x[3] = Len(f) \/ T(x[3] + 1) # x[1]) }

\* a / b in ten-thousandths, 0 when b = 0.
Frac(a, b) == IF b = 0 THEN 0 ELSE (10000 * a) \div b

\* 2pr / (p + r) in ten-thousandths, 0 when p + r = 0.
F1(p, r) == IF p + r = 0 THEN 0 ELSE (2 * p * r) \div (p + r)

\* A value in ten-thousandths rounded to hundredths.
Cents(x) == (x + 50) \div 100

RECURSIVE WeightedSum(_, _)
\* The sum of value * weight over rows, a sequence of <<value, weight>>.
WeightedSum(rows, i) ==
    IF i > Len(rows) THEN 0 ELSE rows[i][1] * rows[i][2] + WeightedSum(rows, i + 1)

\* The characters of a report: a blank, a line end, a word, a number printed
\* with two decimals (val in hundredths), an integer.
Blank == [ch |-> " ", val |-> 0]

LineEnd == [ch |-> "\n", val |-> 0]

Word(w) == [ch |-> w, val |-> 0]

Decimal(c) == [ch |-> "%.2f", val |-> c]

Integer(n) == [ch |-> "%d", val |-> n]

\* A row of the report: the heading right-aligned, three decimals, the support.
ReportRow(heading, p, r, f, support) ==
    <<Blank>> \o heading \o
        <<Blank, Blank, Decimal(Cents(p)), Blank, Blank, Decimal(Cents(r)),
          Blank, Blank, Decimal(Cents(f)), Blank, Blank, Integer(support), LineEnd>>

RECURSIVE TypeRows(_, _, _, _)
\* The rows of the types that have true entities, from type number i on, as
\* <<type, precision, recall, f1, support>> in ten-thousandths.
TypeRows(trueE, predE, types, i) ==
    IF i > Len(types) THEN <<>>
    ELSE LET t == types[i]
             te == {e \in trueE : e[1] = t}
             pe == {e \in predE : e[1] = t}
             p == Frac(Cardinality(te \cap pe), Cardinality(pe))
             r == Frac(Cardinality(te \cap pe), Cardinality(te))
         IN  (IF te = {} THEN <<>> ELSE << <<t, p, r, F1(p, r), Cardinality(te)>> >>)
                 \o TypeRows(trueE, predE, types, i + 1)

RECURSIVE RowsText(_, _)
RowsText(rows, i) ==
    IF i > Len(rows) THEN <<>>
    ELSE ReportRow(<<Word(rows[i][1])>>, rows[i][2], rows[i][3], rows[i][4], rows[i][5])
             \o RowsText(rows, i + 1)

\* seqeval's classification_report(y_true, y_pred, digits=2): the header, a
\* blank line, a row per type, a blank line, the micro average row and the
\* support-weighted average row headed "macro avg".  The empty text stands for
\* the error raised when no true entity exists (the weighted average then
\* divides by zero).
classification_report(y_true, y_pred) ==
    LET trueE == get_entities(y_true)
        predE == get_entities(y_pred)
        rows == TypeRows(trueE, predE, SortedTypes, 1)
        support == Cardinality(trueE)
        mp == Frac(Cardinality(trueE \cap predE), Cardinality(predE))
        mr == Frac(Cardinality(trueE \cap predE), Cardinality(trueE))
        Avg(col) == WeightedSum([i \in 1..Len(rows) |-> <<rows[i][col], rows[i][5]>>], 1)
                        \div support
    IN  IF support = 0 THEN <<>>
        ELSE <<Blank, Blank, Word("precision"), Blank, Word("recall"), Blank,
               Word("f1-score"), Blank, Word("support"), LineEnd, LineEnd>>
             \o RowsText(rows, 1)
             \o <<LineEnd>>
             \o ReportRow(<<Word("micro"), Blank, Word("avg")>>, mp, mr, F1(mp, mr), support)
             \o ReportRow(<<Word("macro"), Blank, Word("avg")>>, Avg(2), Avg(3), Avg(4), support)

RECURSIVE SplitLines(_, _)
\* str.split('\n'): the pieces between line ends, empty pieces kept; cur is the
\* piece being read.
SplitLines(chars, cur) ==
    IF chars = <<>> THEN <<cur>>
    ELSE IF Head(chars) = LineEnd
         THEN <<cur>> \o SplitLines(Tail(chars), <<>>)
         ELSE SplitLines(Tail(chars), Append(cur, Head(chars)))

RECURSIVE SplitBlanks(_, _)
\* str.split(): the maximal runs of non-blank characters of a line.
SplitBlanks(chars, cur) ==
    IF chars = <<>> THEN (IF cur = <<>> THEN <<>> ELSE <<cur>>)
    ELSE IF Head(chars) = Blank
         THEN (IF cur = <<>> THEN <<>> ELSE <<cur>>) \o SplitBlanks(Tail(chars), <<>>)
         ELSE SplitBlanks(Tail(chars), Append(cur, Head(chars)))

\* Whether report.split('\n') has a last piece but one.
HasLastButOne(report) == Len(SplitLines(report, <<>>)) >= 2

\* report.split('\n')[-2].split(): the fields of the last piece but one.
ReportSplits(report) ==
    LET lines == SplitLines(report, <<>>)
    IN  SplitBlanks(lines[Len(lines) - 1], <<>>)

NotANumber == 0 - 1

\* float(field): the number a field reads as, in hundredths; NotANumber when
\* the field does not read as a number.
float(field) ==
    IF Len(field) # 1 THEN NotANumber
    ELSE IF field[1].ch = "%.2f" THEN field[1].val
    ELSE IF field[1].ch = "%d" THEN 100 * field[1].val
    ELSE NotANumber

\* report_splits[i] with i counted from 0; the empty field when out of range.
FieldAt(fields, i) == IF i + 1 > Len(fields) THEN <<>> ELSE fields[i + 1]

(* ------------------------------ the state ----------------------------- *)

VARIABLES
    QUICK_RUN,  \* the flag as written in the notebook's second code cell
    remote,     \* the lines of the file DATA_URL serves
    run,        \* the number of the current run
    pc,         \* the statement the kernel executes next; "done", "failed"
    executed,   \* the statements started in this run, in order
    error,      \* the exception that stopped this run: its statement and origin
    rng,        \* the global generator states of the kernel
    tape,       \* what each generator source has produced so far
    disk,       \* the downloaded files: <<directory, lines>>
    nb,         \* the notebook's variables
    outputs,    \* the cell outputs of this run, in order
    glued,      \* the scraps recorded by sb.glue in this run
    calls,      \* the calls of model.fit and model.predict in this run
    history     \* the data selection of the earlier runs

vars == <<QUICK_RUN, remote, run, pc, executed, error, rng, tape, disk, nb,
          outputs, glued, calls, history>>

\* The statements of the code cells that follow the imports, in cell order.
Statements ==
    << "config", "download", "parse", "sub_sample", "split", "show_example",
       "processor", "label_map", "train_dataset", "train_dataloader",
       "test_dataset", "test_dataloader", "instantiate", "fit", "predict",
       "true_labels", "predicted_labels", "report", "sample_tokens",
       "sample_dataset", "sample_dataloader", "sample_predict", "sample_labels",
       "print_examples", "report_splits", "glue_precision", "glue_recall",
       "glue_f1" >>

IndexOf(seq, x) == CHOOSE i \in 1..Len(seq) : seq[i] = x

\* An order of execution in which the evaluation cell comes before the training cell.
SuccessorPredictFirst(st) ==
    CASE st = "test_dataloader" -> "predict"
      [] st = "predict"         -> "instantiate"
      [] st = "fit"             -> "true_labels"
      [] st = "glue_f1"         -> "done"
      [] OTHER                  -> Statements[IndexOf(Statements, st) + 1]

\* The statement the kernel executes after st: the next one down the notebook.
Successor(st) ==
    IF IndexOf(Statements, st) = Len(Statements) THEN "done"
    ELSE Statements[IndexOf(Statements, st) + 1]

\* A kernel that runs the failed statement again.
OnRaiseRetry(st) == st

\* Where the kernel goes when statement st raises: the run stops.
OnRaise(st) == "failed"

\* The notebook's variables before any cell has run.
EmptyNamespace ==
    [ cfg                 |-> ConfigCell(FALSE, 0),
      sentence_list       |-> <<>>,  labels_list       |-> <<>>,
      sample_size         |-> 0,
      train_sentence_list |-> <<>>,  test_sentence_list |-> <<>>,
      train_labels_list   |-> <<>>,  test_labels_list   |-> <<>>,
      processor           |-> None,
      label_map           |-> [l \in {} |-> 0],
      train_dataset       |-> <<>>,  test_dataset      |-> <<>>,
      train_dataloader    |-> dataloader_from_dataset(<<>>, 0, None, FALSE, FALSE),
      test_dataloader     |-> dataloader_from_dataset(<<>>, 0, None, FALSE, FALSE),
      model               |-> TokenClassifier(None, 0, None),
      preds               |-> <<>>,  true_labels       |-> <<>>,
      predicted_labels    |-> <<>>,  report            |-> <<>>,
      sample_text         |-> <<>>,  sample_tokens     |-> <<>>,
      sample_dataset      |-> <<>>,
      sample_dataloader   |-> dataloader_from_dataset(<<>>, 0, None, FALSE, FALSE),
      i                   |-> 0,
      report_splits       |-> <<>> ]

FreshKernel(r) == [py |-> Entropy("py", r), np |-> Entropy("np", r), torch |-> <<"os", r>>]

\* The sub-sampling ratio the configuration cell sets under a flag.
RatioUnder(quick) == ConfigCell(quick, 0).SAMPLE_RATIO

Init ==
    /\ QUICK_RUN \in BOOLEAN
    /\ \E n \in 0..MaxFile :
          /\ IntOf(RatioUnder(QUICK_RUN), n) <= MaxSentences
          /\ remote = FileLines(n)
    /\ run = 1
    /\ pc = Statements[1]
    /\ executed = <<>>
    /\ error = NoError
    /\ rng = FreshKernel(1)
    /\ tape = [s \in RngSources |-> <<>>]
    /\ disk = {}
    /\ nb = EmptyNamespace
    /\ outputs = <<>>
    /\ glued = <<>>
    /\ calls = <<>>
    /\ history = <<>>

\* The statements started once st has started (a loop starts once).
Started(st) ==
    IF executed # <<>> /\ executed[Len(executed)] = st THEN executed
    ELSE Append(executed, st)

\* Statement st runs to its end: the kernel moves to the next statement.
Completes(st) ==
    /\ pc = st
    /\ pc' = Successor(st)
    /\ executed' = Started(st)
    /\ error' = error
    /\ UNCHANGED <<QUICK_RUN, remote, run, history>>

\* Statement st raises an exception of the given origin: "library" when a
\* called library raises it, "notebook" when the statement's own expression does.
Raises(st, origin) ==
    /\ pc = st
    /\ pc' = OnRaise(st)
    /\ executed' = Started(st)
    /\ error' = [step |-> st, origin |-> origin]
    /\ UNCHANGED <<QUICK_RUN, remote, run, history>>

(* ------------------------- the statements ----------------------------- *)

\* Cell 3: the configuration, torch.manual_seed(RANDOM_SEED), the quick-run override.
Config ==
    /\ Completes("config")
    /\ nb' = [nb EXCEPT !.cfg = ConfigCell(QUICK_RUN, run)]
    /\ rng' = [rng EXCEPT !.torch = <<"seed", RANDOM_SEED>>]
    /\ UNCHANGED <<tape, disk, outputs, glued, calls>>

\* maybe_download(DATA_URL, file_name, DATA_PATH): fetches the file unless the
\* directory already holds it.
Download ==
    /\ Completes("download")
    /\ disk' = IF \E f \in disk : f[1] = nb.cfg.DATA_PATH THEN disk
               ELSE disk \cup {<<nb.cfg.DATA_PATH, remote>>}
    /\ UNCHANGED <<rng, tape, nb, outputs, glued, calls>>

\* sentence_list, labels_list = read_conll_file(data_file, sep=" ")
Parse ==
    /\ Completes("parse")
    /\ LET f == CHOOSE f \in disk : f[1] = nb.cfg.DATA_PATH
           parsed == read_conll_file(f[2])
       IN  nb' = [nb EXCEPT !.sentence_list = parsed.sentence_list,
                            !.labels_list = parsed.labels_list]
    /\ UNCHANGED <<rng, tape, disk, outputs, glued, calls>>

\* A sub-sample drawn from the generator as the kernel left it.
SampleGeneratorUnseeded(cfg, g) == g.py

\* random.seed(RANDOM_SEED): the generator random.sample draws from.
SampleGenerator(cfg, g) == Seeded("py", cfg.RANDOM_SEED)

\* sample_size = int(SAMPLE_RATIO * len(sentence_list))
SampleSize(cfg, n) == IntOf(cfg.SAMPLE_RATIO, n)

\* A sample whose sentences and labels are drawn apart.
SampledApart(sentences, labels, d) ==
    << random_sample(sentences, d),
       random_sample(labels, [i \in 1..Len(d) |-> (Len(d) - i) % (Len(labels) - i + 1)]) >>

\* list(zip(*random.sample(list(zip(sentence_list, labels_list)), k=sample_size)))
Sampled(sentences, labels, d) == unzip(random_sample(zip(sentences, labels), d))

\* The sub-sample: seed, sample size, and the sample unpacked into the two
\* lists.  Unpacking an empty sample into two names raises ValueError.
SubSample ==
    /\ pc = "sub_sample"
    /\ LET st == SampleGenerator(nb.cfg, rng)
           n == Len(nb.sentence_list)
           k == SampleSize(nb.cfg, n)
       IN  \E d \in Draws(tape, st, SampleModuli(n, k)) :
              LET lists == Sampled(nb.sentence_list, nb.labels_list, d)
              IN  /\ rng' = [rng EXCEPT !.py = Advanced(st, d)]
                  /\ tape' = Recorded(tape, st, d)
                  /\ IF Len(lists) = 2
                     THEN /\ Completes("sub_sample")
                          /\ nb' = [nb EXCEPT !.sample_size = k,
                                              !.sentence_list = lists[1],
                                              !.labels_list = lists[2]]
                     ELSE /\ Raises("sub_sample", "notebook")
                          /\ nb' = [nb EXCEPT !.sample_size = k]
    /\ UNCHANGED <<disk, outputs, glued, calls>>

\* random_state=RANDOM_SEED: the split draws from a generator of its own.
SplitGenerator(cfg, g) == Seeded("np", cfg.RANDOM_SEED)

\* A test size rounded down.
TestSizeFloor(cfg, n) == IntOf(cfg.TEST_DATA_FRACTION, n)

\* n_test = ceil(test_size * n_samples)
TestSize(cfg, n) == CeilOf(cfg.TEST_DATA_FRACTION, n)

\* The test indices are the first n_test of the permutation, the train indices
\* the rest.
SplitIndices(perm, n_test) ==
    [test |-> SubSeq(perm, 1, n_test), train |-> SubSeq(perm, n_test + 1, Len(perm))]

\* train_test_split(sentence_list, labels_list, test_size=TEST_DATA_FRACTION,
\* random_state=RANDOM_SEED); it raises ValueError when the train set would be empty.
Split ==
    /\ pc = "split"
    /\ LET n == Len(nb.sentence_list)
           n_test == TestSize(nb.cfg, n)
           st == SplitGenerator(nb.cfg, rng)
       IN  IF n - n_test <= 0
           THEN /\ Raises("split", "library")
                /\ UNCHANGED <<rng, tape, nb>>
           ELSE \E d \in Draws(tape, st, ShuffleModuli(n)) :
                   LET ix == SplitIndices(permutation(n, d), n_test)
                   IN  /\ Completes("split")
                       /\ tape' = Recorded(tape, st, d)
                       /\ rng' = IF st = rng.np THEN [rng EXCEPT !.np = Advanced(st, d)]
                                 ELSE rng
                       /\ nb' = [nb EXCEPT
                             !.train_sentence_list = SelectSeqIdx(nb.sentence_list, ix.train),
                             !.test_sentence_list  = SelectSeqIdx(nb.sentence_list, ix.test),
                             !.train_labels_list   = SelectSeqIdx(nb.labels_list, ix.train),
                             !.test_labels_list    = SelectSeqIdx(nb.labels_list, ix.test)]
    /\ UNCHANGED <<disk, outputs, glued, calls>>

\* pd.DataFrame({"token": train_sentence_list[0], "label": train_labels_list[0]}).head(11)
ShowExample ==
    /\ Completes("show_example")
    /\ outputs' = Append(outputs,
           [kind |-> "table", of |-> "train", row |-> 0,
            left |-> nb.train_sentence_list[1].tokens,
            right |-> nb.train_labels_list[1].labels])
    /\ UNCHANGED <<rng, tape, disk, nb, glued, calls>>

\* processor = TokenClassificationProcessor(model_name, to_lower, cache_dir)
Processor ==
    /\ Completes("processor")
    /\ nb' = [nb EXCEPT !.processor = nb.cfg.MODEL_NAME]
    /\ UNCHANGED <<rng, tape, disk, outputs, glued, calls>>

\* label_map = TokenClassificationProcessor.create_label_map(labels_list, TRAILING_PIECE_TAG)
LabelMap ==
    /\ Completes("label_map")
    /\ nb' = [nb EXCEPT !.label_map =
                 create_label_map(nb.labels_list, nb.cfg.TRAILING_PIECE_TAG)]
    /\ UNCHANGED <<rng, tape, disk, outputs, glued, calls>>

\* A training set built from the whole sub-sample.
TrainDatasetOfAll(v) ==
    preprocess(v.sentence_list, v.cfg.MAX_SEQ_LENGTH, v.labels_list,
               v.label_map, v.cfg.TRAILING_PIECE_TAG)

\* train_dataset = processor.preprocess(text=train_sentence_list, ...,
\* labels=train_labels_list, ...)
TrainDatasetOf(v) ==
    preprocess(v.train_sentence_list, v.cfg.MAX_SEQ_LENGTH, v.train_labels_list,
               v.label_map, v.cfg.TRAILING_PIECE_TAG)

TrainDataset ==
    /\ Completes("train_dataset")
    /\ nb' = [nb EXCEPT !.train_dataset = TrainDatasetOf(nb)]
    /\ UNCHANGED <<rng, tape, disk, outputs, glued, calls>>

\* train_dataloader = dataloader_from_dataset(train_dataset, ..., shuffle=True, ...)
TrainDataloader ==
    /\ Completes("train_dataloader")
    /\ nb' = [nb EXCEPT !.train_dataloader =
                 dataloader_from_dataset(nb.train_dataset, nb.cfg.BATCH_SIZE,
                                         nb.cfg.NUM_GPUS, TRUE, FALSE)]
    /\ UNCHANGED <<rng, tape, disk, outputs, glued, calls>>

\* test_dataset = processor.preprocess(text=test_sentence_list, ...,
\* labels=test_labels_list, ...)
TestDatasetOf(v) ==
    preprocess(v.test_sentence_list, v.cfg.MAX_SEQ_LENGTH, v.test_labels_list,
               v.label_map, v.cfg.TRAILING_PIECE_TAG)

TestDataset ==
    /\ Completes("test_dataset")
    /\ nb' = [nb EXCEPT !.test_dataset = TestDatasetOf(nb)]
    /\ UNCHANGED <<rng, tape, disk, outputs, glued, calls>>

\* test_dataloader = dataloader_from_dataset(test_dataset, ..., shuffle=False, ...)
TestDataloader ==
    /\ Completes("test_dataloader")
    /\ nb' = [nb EXCEPT !.test_dataloader =
                 dataloader_from_dataset(nb.test_dataset, nb.cfg.BATCH_SIZE,
                                         nb.cfg.NUM_GPUS, FALSE, FALSE)]
    /\ UNCHANGED <<rng, tape, disk, outputs, glued, calls>>

\* model = TokenClassifier(model_name=MODEL_NAME, num_labels=len(label_map), cache_dir=CACHE_DIR)
Instantiate ==
    /\ Completes("instantiate")
    /\ nb' = [nb EXCEPT !.model =
                 TokenClassifier(nb.cfg.MODEL_NAME, Cardinality(DOMAIN nb.label_map),
                                 nb.cfg.CACHE_DIR)]
    /\ UNCHANGED <<rng, tape, disk, outputs, glued, calls>>

\* A fit that always trains for the default number of epochs.
FitEpochsDefault(cfg) == 5

\* num_epochs=NUM_TRAIN_EPOCHS
FitEpochs(cfg) == cfg.NUM_TRAIN_EPOCHS

\* The parsed-file positions of the sentences of a dataset, and of the label
\* lists they were given.
Positions(dataset) == [k \in 1..Len(dataset) |-> dataset[k].pos]

LabelPositions(dataset) == [k \in 1..Len(dataset) |-> dataset[k].lpos]

\* The record of a call of the model made by statement st.
Call(st, fn, epochs, seed, model, loader) ==
    [at |-> st, fn |-> fn, num_epochs |-> epochs, seed |-> seed,
     fitted |-> model.fitted # None,
     data |-> Positions(loader.dataset), labels |-> LabelPositions(loader.dataset)]

\* model.fit(train_dataloader=train_dataloader, num_epochs=NUM_TRAIN_EPOCHS, ...,
\* seed=RANDOM_SEED) inside the timer, then the training time is printed.
Fit ==
    /\ Completes("fit")
    /\ \E c \in Classifiers :
          nb' = [nb EXCEPT !.model.fitted = c,
                           !.model.seen = SeenPairs(nb.train_dataloader.dataset),
                           !.model.default = FirstId(nb.train_dataloader.dataset)]
    /\ calls' = Append(calls, Call("fit", "fit", FitEpochs(nb.cfg), nb.cfg.RANDOM_SEED,
                                    nb.model, nb.train_dataloader))
    /\ outputs' = Append(outputs, [kind |-> "text", of |-> "Training time"])
    /\ UNCHANGED <<rng, tape, disk, glued>>

\* preds = model.predict(test_dataloader=test_dataloader, ...) inside the timer,
\* then the prediction time is printed.
Predict ==
    /\ Completes("predict")
    /\ \E order \in LoaderOrders(nb.test_dataloader) :
          nb' = [nb EXCEPT !.preds = predict(nb.model, nb.test_dataloader, order)]
    /\ calls' = Append(calls, Call("predict", "predict", 0, 0, nb.model, nb.test_dataloader))
    /\ outputs' = Append(outputs, [kind |-> "text", of |-> "Prediction time"])
    /\ UNCHANGED <<rng, tape, disk, glued>>

\* true_labels = model.get_true_test_labels(label_map=label_map, dataset=test_dataset)
TrueLabels ==
    /\ Completes("true_labels")
    /\ nb' = [nb EXCEPT !.true_labels = get_true_test_labels(nb.label_map, nb.test_dataset)]
    /\ UNCHANGED <<rng, tape, disk, outputs, glued, calls>>

\* predicted_labels = model.get_predicted_token_labels(predictions=preds,
\* label_map=label_map, dataset=test_dataset)
PredictedLabels ==
    /\ Completes("predicted_labels")
    /\ nb' = [nb EXCEPT !.predicted_labels =
                 get_predicted_token_labels(nb.preds, nb.label_map, nb.test_dataset)]
    /\ UNCHANGED <<rng, tape, disk, outputs, glued, calls>>

\* report = classification_report(true_labels, predicted_labels, digits=2);
\* print(report)
Report ==
    /\ pc = "report"
    /\ LET r == classification_report(nb.true_labels, LabelStrings(nb.predicted_labels))
       IN  IF r = <<>>
           THEN /\ Raises("report", "library")
                /\ UNCHANGED <<nb, outputs>>
           ELSE /\ Completes("report")
                /\ nb' = [nb EXCEPT !.report = r]
                /\ outputs' = Append(outputs, [kind |-> "report", of |-> r])
    /\ UNCHANGED <<rng, tape, disk, glued, calls>>

\* The two example sentences of the last but one cell.
SampleText ==
    << <<"I","s"," ","i","t"," ","t","r","u","e"," ","t","h","a","t"," ","J","a","n","e"," ","w","o","r","k","s"," ","a","t"," ","M","i","c","r","o","s","o","f","t","?">>,
       <<"J","o","e"," ","n","o","w"," ","l","i","v","e","s"," ","i","n"," ","C","o","p","e","n","h","a","g","e","n",".">> >>

\* Token lists as the text argument of preprocess.
AsText(token_lists) == [k \in 1..Len(token_lists) |-> [pos |-> k, tokens |-> token_lists[k]]]

\* sample_text = [...]; sample_tokens = [x.split() for x in sample_text]
SampleTokens ==
    /\ Completes("sample_tokens")
    /\ nb' = [nb EXCEPT !.sample_text = SampleText,
                        !.sample_tokens = [k \in 1..Len(SampleText) |-> split(SampleText[k])]]
    /\ UNCHANGED <<rng, tape, disk, outputs, glued, calls>>

\* sample_dataset = processor.preprocess(text=sample_tokens, ..., labels=None, ...)
SampleDataset ==
    /\ Completes("sample_dataset")
    /\ nb' = [nb EXCEPT !.sample_dataset =
                 preprocess(AsText(nb.sample_tokens), nb.cfg.MAX_SEQ_LENGTH, NoLabelLists,
                            nb.label_map, nb.cfg.TRAILING_PIECE_TAG)]
    /\ UNCHANGED <<rng, tape, disk, outputs, glued, calls>>

\* A loader of the example sentences that shuffles.
SampleLoaderShuffling(v) ==
    dataloader_from_dataset(v.sample_dataset, v.cfg.BATCH_SIZE, None, TRUE, FALSE)

\* sample_dataloader = dataloader_from_dataset(sample_dataset, ..., shuffle=False, ...)
SampleLoader(v) ==
    dataloader_from_dataset(v.sample_dataset, v.cfg.BATCH_SIZE, None, FALSE, FALSE)

SampleDataloader ==
    /\ Completes("sample_dataloader")
    /\ nb' = [nb EXCEPT !.sample_dataloader = SampleLoader(nb)]
    /\ UNCHANGED <<rng, tape, disk, outputs, glued, calls>>

\* preds = model.predict(test_dataloader=sample_dataloader, ...)
SamplePredict ==
    /\ Completes("sample_predict")
    /\ \E order \in LoaderOrders(nb.sample_dataloader) :
          nb' = [nb EXCEPT !.preds = predict(nb.model, nb.sample_dataloader, order)]
    /\ calls' = Append(calls, Call("sample_predict", "predict", 0, 0, nb.model,
                                    nb.sample_dataloader))
    /\ UNCHANGED <<rng, tape, disk, outputs, glued>>

\* predicted_labels = model.get_predicted_token_labels(predictions=preds,
\* label_map=label_map, dataset=sample_dataset)
SampleLabels ==
    /\ Completes("sample_labels")
    /\ nb' = [nb EXCEPT !.predicted_labels =
                 get_predicted_token_labels(nb.preds, nb.label_map, nb.sample_dataset),
                        !.i = 0]
    /\ UNCHANGED <<rng, tape, disk, outputs, glued, calls>>

\* for i in range(len(sample_text)): the index of the next iteration.
NextIndex(i) == i + 1

\* One iteration of the loop: print the sentence, then the table of its tokens
\* and labels, which pandas refuses to build from columns of different lengths.
PrintExample ==
    /\ pc = "print_examples"
    /\ nb.i < Len(nb.sample_text)
    /\ LET tokens == nb.sample_tokens[nb.i + 1]
           labels == nb.predicted_labels[nb.i + 1]
       IN  IF Len(tokens) # Len(labels)
           THEN /\ Raises("print_examples", "library")
                /\ outputs' = Append(outputs, [kind |-> "text", of |-> nb.sample_text[nb.i + 1]])
                /\ UNCHANGED nb
           ELSE /\ pc' = IF NextIndex(nb.i) < Len(nb.sample_text) THEN pc
                         ELSE Successor("print_examples")
                /\ executed' = Started("print_examples")
                /\ nb' = [nb EXCEPT !.i = NextIndex(nb.i)]
                /\ outputs' = outputs \o
                       << [kind |-> "text", of |-> nb.sample_text[nb.i + 1]],
                          [kind |-> "table", of |-> "sample", row |-> nb.i,
                           left |-> tokens, right |-> labels] >>
                /\ UNCHANGED <<QUICK_RUN, remote, run, history, error>>
    /\ UNCHANGED <<rng, tape, disk, glued, calls>>

\* report.split('\n')[-2].split()
ReportSplitsOf(report) == ReportSplits(report)

\* report_splits = report.split('\n')[-2].split(); indexing raises IndexError
\* when the report has no line end.
ReportSplitsStmt ==
    /\ pc = "report_splits"
    /\ IF HasLastButOne(nb.report)
       THEN /\ Completes("report_splits")
            /\ nb' = [nb EXCEPT !.report_splits = ReportSplitsOf(nb.report)]
       ELSE /\ Raises("report_splits", "notebook")
            /\ UNCHANGED nb
    /\ UNCHANGED <<rng, tape, disk, outputs, glued, calls>>

\* Field numbers one too high.
MetricFieldShifted(name) ==
    CASE name = "precision" -> 3 [] name = "recall" -> 4 [] name = "f1" -> 5

\* The field of report_splits each scrap is read from, counted from 0.
MetricField(name) ==
    CASE name = "precision" -> 2 [] name = "recall" -> 3 [] name = "f1" -> 4

\* sb.glue(name, float(report_splits[k])): a missing field raises IndexError, a
\* field that is no number raises ValueError.
Glue(st, name) ==
    /\ pc = st
    /\ LET value == float(FieldAt(nb.report_splits, MetricField(name)))
       IN  IF value = NotANumber
           THEN /\ Raises(st, "notebook")
                /\ UNCHANGED glued
           ELSE /\ Completes(st)
                /\ glued' = Append(glued, <<name, value>>)
    /\ UNCHANGED <<rng, tape, disk, nb, outputs, calls>>

GluePrecision == Glue("glue_precision", "precision")

GlueRecall == Glue("glue_recall", "recall")

GlueF1 == Glue("glue_f1", "f1")

\* The statements that call into a library (the others use built-in string
\* and list operations only).
LibraryStatements == Range(Statements) \ {"sample_tokens", "report_splits"}

\* A library call of the current statement raises (a download error, out of
\* memory, malformed data): the statement has no effect.
LibraryRaises ==
    /\ pc \in LibraryStatements
    /\ Raises(pc, "library")
    /\ UNCHANGED <<rng, tape, disk, nb, outputs, glued, calls>>

\* Whether statement st ran to its end in this run.
Completed(st) ==
    /\ \E k \in 1..Len(executed) : executed[k] = st
    /\ pc # st
    /\ error.step # st

\* The data selection of the current run.
Selection ==
    [ sampled |-> Completed("sub_sample"),
      split   |-> Completed("split"),
      sample  |-> [k \in 1..Len(nb.sentence_list) |-> nb.sentence_list[k].pos],
      train   |-> [k \in 1..Len(nb.train_sentence_list) |-> nb.train_sentence_list[k].pos],
      test    |-> [k \in 1..Len(nb.test_sentence_list) |-> nb.test_sentence_list[k].pos] ]

\* Restart the kernel and run all cells again: a fresh kernel, the same
\* notebook and the same file behind DATA_URL.
Restart ==
    /\ pc \in {"done", "failed"}
    /\ run < MaxRuns
    /\ run' = run + 1
    /\ pc' = Statements[1]
    /\ executed' = <<>>
    /\ error' = NoError
    /\ rng' = FreshKernel(run + 1)
    /\ nb' = EmptyNamespace
    /\ outputs' = <<>>
    /\ glued' = <<>>
    /\ calls' = <<>>
    /\ history' = Append(history, Selection)
    /\ UNCHANGED <<QUICK_RUN, remote, tape, disk>>

\* The statements that run to their end or raise on their own.
Step ==
    \/ Config \/ Download \/ Parse \/ SubSample \/ Split \/ ShowExample
    \/ Processor \/ LabelMap \/ TrainDataset \/ TrainDataloader
    \/ TestDataset \/ TestDataloader \/ Instantiate \/ Fit \/ Predict
    \/ TrueLabels \/ PredictedLabels \/ Report
    \/ SampleTokens \/ SampleDataset \/ SampleDataloader \/ SamplePredict
    \/ SampleLabels \/ PrintExample \/ ReportSplitsStmt
    \/ GluePrecision \/ GlueRecall \/ GlueF1

\* One run of the notebook.
Next == Step \/ LibraryRaises

Spec == Init /\ [][Next]_vars

\* Runs of the notebook one after the other, each in a fresh kernel.
RerunNext == Step \/ Restart

RerunSpec == Init /\ [][RerunNext]_vars

(* ------------------------------ properties ---------------------------- *)

PosSet(list) == {list[k].pos : k \in 1..Len(list)}

PosSeq(list) == [k \in 1..Len(list) |-> list[k].pos]

NoRepeats(seq) == \A i, j \in 1..Len(seq) : seq[i] = seq[j] => i = j

\* The number of sentences of the file behind DATA_URL: its blank lines.
FileSentences == Cardinality({i \in 1..Len(remote) : remote[i] = <<>>})

\* The pipeline steps in the order the overview gives them.
PipelineOrder ==
    << "configuration", "download", "parse", "sub-sample", "split", "datasets",
       "instantiate", "fit", "predict", "report", "examples", "metrics" >>

\* The pipeline step a statement belongs to ("display" for the cell that only
\* shows a training sentence).
StepOf(st) ==
    CASE st = "config" -> "configuration"
      [] st = "download" -> "download"
      [] st = "parse" -> "parse"
      [] st = "sub_sample" -> "sub-sample"
      [] st = "split" -> "split"
      [] st = "show_example" -> "display"
      [] st \in {"processor", "label_map", "train_dataset", "train_dataloader",
                 "test_dataset", "test_dataloader"} -> "datasets"
      [] st = "instantiate" -> "instantiate"
      [] st = "fit" -> "fit"
      [] st = "predict" -> "predict"
      [] st \in {"true_labels", "predicted_labels", "report"} -> "report"
      [] st \in {"sample_tokens", "sample_dataset", "sample_dataloader",
                 "sample_predict", "sample_labels", "print_examples"} -> "examples"
      [] st \in {"report_splits", "glue_precision", "glue_recall", "glue_f1"} -> "metrics"

RECURSIVE StepsOf(_, _)
\* The pipeline steps a sequence of statements goes through: each statement's
\* step, a step named once for the statements that follow one another in it.
StepsOf(sts, last) ==
    IF sts = <<>> THEN <<>>
    ELSE LET s == StepOf(Head(sts))
         IN  (IF s = last \/ s = "display" THEN <<>> ELSE <<s>>)
                 \o StepsOf(Tail(sts), IF s = "display" THEN last ELSE s)

\* C1: in every run the steps execute one at a time in the one order
\* configuration, download, parse, sub-sample, split, datasets and loaders,
\* model instantiation, fit, predict on the test split, classification
\* report, example predictions, metric recording: the steps started so far are
\* a beginning of that order, no statement has started twice, only the last
\* started statement can be unfinished, fit is called at most once, and every
\* call of predict finds the model already fitted.
C1_FixedOrder ==
    /\ IsPrefix(StepsOf(executed, "none"), PipelineOrder)
    /\ NoRepeats(executed)
    /\ \A k \in 1..Len(executed) : k < Len(executed) => Completed(executed[k])
    /\ Cardinality({k \in 1..Len(calls) : calls[k].fn = "fit"}) <= 1
    /\ \A k \in 1..Len(calls) :
          /\ calls[k].fn = "predict" =>
                /\ calls[k].fitted
                /\ \E j \in 1..(k - 1) : calls[j].fn = "fit"
          /\ calls[k].fn = "fit" => ~calls[k].fitted

\* A run that went through every step, predicting twice after one fit.
C1_Witness ==
    /\ pc = "done"
    /\ StepsOf(executed, "none") = PipelineOrder
    /\ Len(calls) = 3

\* C2: the scored split is held out from training: the data given to fit holds
\* the sentences and label lists of the train split only, the data given to the
\* evaluated predict those of the test split only, and no sentence of the test
\* split (no position of the sub-sample that the split put there) is in the
\* data given to fit.
C2_HeldOut ==
    \A k \in 1..Len(calls) :
        /\ calls[k].at = "fit" =>
              /\ calls[k].data = PosSeq(nb.train_sentence_list)
              /\ calls[k].labels = PosSeq(nb.train_labels_list)
              /\ Range(calls[k].data) \cap PosSet(nb.test_sentence_list) = {}
              /\ Range(calls[k].labels) \cap PosSet(nb.test_labels_list) = {}
        /\ calls[k].at = "predict" =>
              /\ calls[k].data = PosSeq(nb.test_sentence_list)
              /\ calls[k].labels = PosSeq(nb.test_labels_list)
              /\ Range(calls[k].data) \cap PosSet(nb.train_sentence_list) = {}

\* The model was fitted on two sentences and scored on a third.
C2_Witness ==
    /\ Completed("predict")
    /\ Len(nb.train_sentence_list) = 2
    /\ Len(nb.test_sentence_list) = 1
    /\ \E k \in 1..Len(calls) : calls[k].at = "fit" /\ Len(calls[k].data) = 2

\* The configuration values that the quick run leaves alone.
OtherValues(cfg) ==
    << cfg.DATA_URL, cfg.TEST_DATA_FRACTION, cfg.RANDOM_SEED, cfg.MODEL_NAME,
       cfg.DO_LOWER_CASE, cfg.MAX_SEQ_LENGTH, cfg.TRAILING_PIECE_TAG, cfg.NUM_GPUS,
       cfg.BATCH_SIZE >>

\* C3: after the configuration cell SAMPLE_RATIO is 0.1 and NUM_TRAIN_EPOCHS is
\* 1 when QUICK_RUN is True, and 1 and 5 when it is False; every other value is
\* the one written in the cell whatever the flag (the two directories are fresh
\* temporary names); the sample size is computed from that ratio and fit is
\* called with that number of epochs.
C3_QuickRun ==
    LET ratio == IF QUICK_RUN THEN Ratio(1, 10) ELSE Ratio(1, 1)
        epochs == IF QUICK_RUN THEN 1 ELSE 5
    IN  /\ Completed("config") =>
              /\ nb.cfg.SAMPLE_RATIO = ratio
              /\ nb.cfg.NUM_TRAIN_EPOCHS = epochs
              /\ OtherValues(nb.cfg) =
                    << DATA_URL, Ratio(3, 10), 100, "bert-base-cased", FALSE, 200, "X",
                       None, 16 >>
              /\ nb.cfg.DATA_PATH = <<"tmp", run, 1>>
              /\ nb.cfg.CACHE_DIR = <<"tmp", run, 2>>
        /\ Completed("sub_sample") \/ error = [step |-> "sub_sample", origin |-> "notebook"] =>
              nb.sample_size = (ratio.num * FileSentences) \div ratio.den
        /\ Completed("sub_sample") => Len(nb.sentence_list) = nb.sample_size
        /\ \A k \in 1..Len(calls) : calls[k].fn = "fit" => calls[k].num_epochs = epochs

\* A quick run that sub-sampled two of twenty sentences and called fit.
C3_Witness ==
    /\ QUICK_RUN
    /\ Completed("fit")
    /\ nb.sample_size = 2
    /\ FileSentences = 20

\* The last non-empty line of a text.
LastNonEmptyLine(text) ==
    LET lines == SelectSeq(SplitLines(text, <<>>), LAMBDA l : l # <<>>)
    IN  lines[Len(lines)]

\* The report of the test split: of its true labels and of what the fitted
\* model answers on its examples taken in order.
TestSplitReport ==
    LET ids == [k \in 1..Len(nb.test_dataset) |-> k]
        scores == predict(nb.model, nb.test_dataloader, ids)
    IN  classification_report(
            get_true_test_labels(nb.label_map, nb.test_dataset),
            LabelStrings(get_predicted_token_labels(scores, nb.label_map, nb.test_dataset)))

MetricNames == <<"precision", "recall", "f1">>

\* C4: the scalars recorded under the names precision, recall and f1 are fields
\* 2, 3 and 4 (counted from 0) of the last non-empty line of the report, the
\* "macro avg" row; the report is the one of the test split, also after the
\* example sentences were scored, which reassigns preds and predicted_labels
\* only.
C4_RecordedMetrics ==
    /\ Completed("report") => nb.report = TestSplitReport
    /\ Completed("sample_labels") =>
          /\ Len(nb.preds) = Len(nb.sample_text)
          /\ Len(nb.predicted_labels) = Len(nb.sample_text)
    /\ \A k \in 1..Len(glued) :
          LET fields == SplitBlanks(LastNonEmptyLine(nb.report), <<>>)
          IN  /\ fields[1] = <<Word("macro")>>
              /\ fields[2] = <<Word("avg")>>
              /\ glued[k][1] = MetricNames[k]
              /\ fields[k + 2] = <<Decimal(glued[k][2])>>
    /\ Len(glued) <= 3

\* The three metrics are recorded, precision and recall differing, from a test
\* split of another size than the two example sentences.
C4_Witness ==
    /\ pc = "done"
    /\ Len(glued) = 3
    /\ glued[1][2] # glued[2][2]
    /\ glued[3][2] \notin {0, 100}
    /\ Len(nb.test_dataset) = 1

\* The changes a statement makes besides moving the kernel on.
Effects == <<nb, glued, calls, disk, rng, tape>>

\* C5 as stated: once a library call has raised, the run has stopped at the
\* statement that raised and no metric is recorded.
C5_NoMetricAfterRaise ==
    error.origin = "library" => pc = "failed" /\ glued = <<>>

\* C5: when a library call raises, the run stops at that statement with that
\* exception: the statement is not run again, no later statement runs, nothing
\* is assigned or recorded in its place, and no metric is recorded afterwards;
\* a metric is on record then only when the call that raised is the second or
\* the third sb.glue, after the earlier ones recorded theirs.
C5_StopsAtRaise ==
    [][ /\ pc # "failed"
        /\ error'.origin = "library" =>
              /\ pc' = "failed"
              /\ error'.step = pc
              /\ executed' = Started(pc)
              /\ NoRepeats(executed')
              /\ Effects' = Effects
              /\ glued' # <<>> => pc \in {"glue_recall", "glue_f1"}
      ]_vars

\* A run stopped by a library error in fit.
C5_Witness ==
    /\ pc = "failed"
    /\ error = [step |-> "fit", origin |-> "library"]
    /\ glued = <<>>

\* What a finished run has done: fit called once with the configured number of
\* epochs, the report printed, the three metrics recorded, and one table
\* printed per example sentence.
Finished ==
    /\ Cardinality({k \in 1..Len(calls) : calls[k].fn = "fit"}) = 1
    /\ \A k \in 1..Len(calls) :
          calls[k].fn = "fit" => calls[k].num_epochs = (IF QUICK_RUN THEN 1 ELSE 5)
    /\ Cardinality({k \in 1..Len(outputs) : outputs[k].kind = "report"}) = 1
    /\ [k \in 1..Len(glued) |-> glued[k][1]] = MetricNames
    /\ Cardinality({k \in 1..Len(outputs) :
                      outputs[k].kind = "table" /\ outputs[k].of = "sample"}) = 2

\* C6 as stated: while no library call has raised, the run does not stop short
\* of the last cell, and at the end it has its results.
C6_RunsToEndUnlessLibraryRaises ==
    error.origin # "library" => pc # "failed" /\ (pc = "done" => Finished)

\* The guard of the statement the kernel is at: a statement of the notebook,
\* and inside the loop an example sentence not yet printed.
Runnable ==
    /\ pc \in Range(Statements)
    /\ pc = "print_examples" => nb.i < Len(nb.sample_text)

\* What is left of a run: the statements from the current one on, and within
\* the loop the iterations made.
Remaining ==
    IF pc \in {"done", "failed"} THEN 0
    ELSE 3 * (Len(Statements) + 1 - IndexOf(Statements, pc))
             - (IF pc = "print_examples" THEN nb.i ELSE 0)

\* C6: when no library call raises and the sub-sample is not empty
\* (int(SAMPLE_RATIO * N) >= 1), the run terminates after the last cell: every
\* step brings the run nearer to its end, a run that has not ended has a
\* statement to execute, a run stops early only on a library error or on the
\* empty sub-sample, and at the end fit was called once with num_epochs =
\* NUM_TRAIN_EPOCHS (5, or 1 under QUICK_RUN), the report was printed, the
\* three metrics were recorded and the loop printed one table per example
\* sentence.
C6_Terminates ==
    [][ /\ Remaining' < Remaining
        /\ pc' = "done" => Finished'
        /\ pc' = "failed" =>
              \/ error'.origin = "library"
              \/ error'.step = "sub_sample" /\ nb'.sample_size = 0
        /\ pc' \notin {"done", "failed"} => Runnable'
      ]_vars

\* A quick run that reached the end.
C6_Witness ==
    /\ pc = "done"
    /\ QUICK_RUN
    /\ Finished

\* The number of whitespace-separated tokens of a text without leading,
\* trailing or doubled blanks: one more than its blanks.
WordCount(text) == 1 + Cardinality({k \in 1..Len(text) : text[k] = " "})

\* C7: once the example sentences are scored, predicted_labels[i] has exactly
\* one label per whitespace-separated token of sample_text[i], the j-th label
\* is the prediction made for example i at the first piece of its j-th token
\* (the loader does not shuffle), and every printed table of the examples pairs
\* the tokens of its sentence with as many labels.
C7_LabelPerToken ==
    /\ Completed("sample_labels") =>
          /\ Len(nb.predicted_labels) = Len(SampleText)
          /\ \A i \in 1..Len(SampleText) :
                /\ Len(nb.sample_tokens[i]) = WordCount(SampleText[i])
                /\ Len(nb.predicted_labels[i]) = Len(nb.sample_tokens[i])
                /\ \A j \in 1..Len(nb.predicted_labels[i]) :
                      LET l == nb.predicted_labels[i][j]
                      IN  /\ l.ex = i
                          /\ l.at \in 1..Len(nb.sample_dataset[i].pieces)
                          /\ nb.sample_dataset[i].pieces[l.at].first
                          /\ nb.sample_dataset[i].pieces[l.at].tok = j
                          /\ l.label \in DOMAIN nb.label_map
    /\ \A k \in 1..Len(outputs) :
          outputs[k].kind = "table" /\ outputs[k].of = "sample" =>
             /\ outputs[k].left = nb.sample_tokens[outputs[k].row + 1]
             /\ outputs[k].right = nb.predicted_labels[outputs[k].row + 1]
             /\ Len(outputs[k].left) = Len(outputs[k].right)

\* Both example tables printed, of eight and of five rows, by a model that
\* repeats what it saw in training.
C7_Witness ==
    /\ pc = "done"
    /\ nb.model.fitted = "memorize"
    /\ \E k \in 1..Len(outputs) :
          outputs[k].kind = "table" /\ outputs[k].of = "sample" /\ Len(outputs[k].right) = 8
    /\ \E k \in 1..Len(outputs) :
          outputs[k].kind = "table" /\ outputs[k].of = "sample" /\ Len(outputs[k].right) = 5

\* The sentences and label lists of the file behind DATA_URL.
ParsedFile == read_conll_file(remote)

\* Whether the sub-sampling statement ran and no library call raised in it.
SubSampled ==
    /\ \E k \in 1..Len(executed) : executed[k] = "sub_sample"
    /\ pc # "sub_sample"
    /\ error # [step |-> "sub_sample", origin |-> "library"]

\* C8: sub-sampling N parsed sentences with int(SAMPLE_RATIO * N) >= 1 yields
\* exactly int(SAMPLE_RATIO * N) sentences, no position of the file taken twice,
\* the j-th sentence and the j-th label list from the same position of the file
\* and equal to what was parsed there; with SAMPLE_RATIO = 1 the positions are
\* all positions of the file.
C8_SubSample ==
    LET parsed == ParsedFile
        N == Len(parsed.sentence_list)
        size == (nb.cfg.SAMPLE_RATIO.num * N) \div nb.cfg.SAMPLE_RATIO.den
    IN  SubSampled /\ size >= 1 =>
           /\ Completed("sub_sample")
           /\ Len(nb.sentence_list) = size
           /\ Len(nb.labels_list) = size
           /\ NoRepeats(PosSeq(nb.sentence_list))
           /\ \A j \in 1..size :
                 /\ nb.sentence_list[j].pos \in 1..N
                 /\ nb.labels_list[j].pos = nb.sentence_list[j].pos
                 /\ nb.sentence_list[j] = parsed.sentence_list[nb.sentence_list[j].pos]
                 /\ nb.labels_list[j] = parsed.labels_list[nb.sentence_list[j].pos]
           /\ nb.cfg.SAMPLE_RATIO = Ratio(1, 1) => PosSet(nb.sentence_list) = 1..N

\* A quick run that drew the 17th and the 4th sentence of twenty, in that order.
C8_Witness ==
    /\ QUICK_RUN
    /\ Completed("sub_sample")
    /\ FileSentences = 20
    /\ PosSeq(nb.sentence_list) = <<17, 4>>

\* C9: the split partitions the n sub-sampled sentences: every position is in
\* exactly one of train and test, test holds ceil(0.3 * n) of them and train the
\* rest, and the k-th sentence and the k-th label list of a split belong to the
\* same sentence and have the same length.
C9_Partition ==
    Completed("split") =>
       LET n == Len(nb.sentence_list)
           n_test == (3 * n + 9) \div 10
       IN  /\ PosSet(nb.train_sentence_list) \cup PosSet(nb.test_sentence_list)
                 = PosSet(nb.sentence_list)
           /\ PosSet(nb.train_sentence_list) \cap PosSet(nb.test_sentence_list) = {}
           /\ NoRepeats(PosSeq(nb.train_sentence_list) \o PosSeq(nb.test_sentence_list))
           /\ Len(nb.test_sentence_list) = n_test
           /\ Len(nb.train_sentence_list) = n - n_test
           /\ PosSeq(nb.train_labels_list) = PosSeq(nb.train_sentence_list)
           /\ PosSeq(nb.test_labels_list) = PosSeq(nb.test_sentence_list)
           /\ \A k \in 1..Len(nb.train_sentence_list) :
                 Len(nb.train_sentence_list[k].tokens) = Len(nb.train_labels_list[k].labels)
           /\ \A k \in 1..Len(nb.test_sentence_list) :
                 Len(nb.test_sentence_list[k].tokens) = Len(nb.test_labels_list[k].labels)

\* Three sentences split into two for training and one for testing, the test
\* sentence not the first of the sub-sample.
C9_Witness ==
    /\ Completed("split")
    /\ Len(nb.sentence_list) = 3
    /\ Len(nb.train_sentence_list) = 2
    /\ Len(nb.test_sentence_list) = 1
    /\ nb.test_sentence_list[1] # nb.sentence_list[1]

\* C10: a run over the same data file with the same QUICK_RUN as an earlier run
\* makes the same data selection: once it has sub-sampled, its sub-sample is
\* the earlier run's, sentence for sentence in the same order, and once it has
\* split, its train and test splits are the earlier run's.
C10_SameSelection ==
    \A r \in 1..Len(history) :
       /\ history[r].sampled /\ Completed("sub_sample") =>
             history[r].sample = PosSeq(nb.sentence_list)
       /\ history[r].split /\ Completed("split") =>
             /\ history[r].train = PosSeq(nb.train_sentence_list)
             /\ history[r].test = PosSeq(nb.test_sentence_list)

\* A second run that split again three sentences the first run had sampled in
\* another order than the file's.
C10_Witness ==
    /\ run = 2
    /\ Completed("split")
    /\ history[1].split
    /\ Len(history[1].sample) = 3
    /\ history[1].sample # <<1, 2, 3>>

=============================================================================
